---------------------------- MODULE Spec2Model ----------------------------
(***************************************************************************)
(* A model of curling::Request (paul-caron/curling): the configuration     *)
(* state machine of one Request, its owned libcurl easy handle with the    *)
(* options the wrapper sets on it, and the execution of send() against the *)
(* transport engine, with the retry loop of send(attempts).                *)
(*                                                                         *)
(* Request::send() is modelled from src/src/curling.cpp:350-425.  The      *)
(* retry loop of send(attempts) (attempt check, backoff, retry decision)   *)
(* is not in the sources at hand, only its test is; it is modelled from    *)
(* section 4.3 of the specification and kept in separate definitions.      *)
(***************************************************************************)
EXTENDS Integers, Sequences, FiniteSets, TLC

(***************************************************************************)
(* Bounds of the model.                                                    *)
(***************************************************************************)
MaxAttempts == 3      \* send(attempts) is called with attempts in 0..MaxAttempts
MaxCalls == 2         \* setter calls on a Request over its life
MaxChunks == 1        \* header lines and body chunks the engine delivers per send

(***************************************************************************)
(* Domains of the inputs.                                                  *)
(***************************************************************************)
\* The methods the caller passes; PATCH takes the path of PUT in every
\* operator below and is not among them.
Methods == {"GET", "POST", "PUT", "DEL", "HEAD", "MIME"}
URLs == {"u1"}
Bodies == {"b1"}
Paths == {"f1"}
HeaderLines == {"h1"}
ArgPairs == {"k=v"}
PartKinds == {"field", "file"}
Callbacks == {"none", "cb"}
HttpVersions == {"DEFAULT", "HTTP_1_1", "HTTP_2", "HTTP_3"}
StatusCodes == {0, 200, 404}
FailCodes == {"CURLE_COULDNT_RESOLVE_HOST"}

NoMime == [valid |-> FALSE, parts |-> <<>>]
NullHandle == 0
\* The handle curl_easy_init() returns when it succeeds.
NewHandle == 1

(***************************************************************************)
(* The options of a handle just created by curl_easy_init(), as the        *)
(* wrapper sees them: nothing set.  A pointer option that is not set, or   *)
(* set to nullptr, is "null"; the URL is the sequence of its pieces.       *)
(***************************************************************************)
FreshOpt ==
    [HTTPGET |-> 0, POST |-> 0, CUSTOMREQUEST |-> "null", NOBODY |-> 0,
     HTTPHEADER |-> "null", MIMEPOST |-> "null",
     COPYPOSTFIELDS |-> "null", POSTFIELDSIZE |-> -1,
     URL |-> <<>>,
     XFERINFOFUNCTION |-> "null", XFERINFODATA |-> "null", NOPROGRESS |-> 1,
     WRITEFUNCTION |-> "null", WRITEDATA |-> "null",
     HEADERFUNCTION |-> "null", HEADERDATA |-> "null",
     HTTP_VERSION |-> "CURL_HTTP_VERSION_NONE"]

\* curl_easy_setopt(handle, option, value) on the handle the Request owns.
setopt(r, option, value) == [r EXCEPT !.opt[option] = value]

VARIABLES
    req,      \* the Request object: its members and the options of its handle
    pc,       \* where the caller's thread is: "idle", or inside send
    frame,    \* the locals of the send in progress
    last,     \* how the last completed call ended
    obs,      \* what the send in progress (or the last one) did so far
    calls     \* setter calls since construction

\* The state of the other parts of the library, which the operations on the
\* one Request above leave alone.
VARIABLES
    hdr,      \* a Response's header map under construction by HeaderCallback
    qs,       \* a Request's query string (args) as text
    rt,       \* detail:: globals: once flag, mutex, instanceCount, engine calls
    th,       \* per thread: position in a constructor or destructor, live Requests
    own,      \* the Requests of one thread and the handles, lists and mimes created
    ver,      \* a Request's HTTP version preference and the engine's features
    hl,       \* a Request's header list, entry by entry
    mv        \* the Requests of one thread with the members a move leaves behind

\* The Request with the send it is in.
reqvars == <<req, pc, frame, last, obs, calls>>
\* The rest.
aside == <<hdr, qs, rt, th, own, ver, hl, mv>>

vars == <<reqvars, aside>>

\* The header list of a new Request: list holds null and there are no
\* entries; with the call just made, the line it was to add, the error it
\* raised and the number of lists it gave back to libcurl.
NoList == [ptr |-> 0, entries |-> <<>>,
           op |-> "", asked |-> <<>>, raised |-> "", freed |-> 0]

\* The version preference of a new Request and the HTTP_VERSION option of
\* its handle; what is known so far of the features of the libcurl build
\* (fixed for the process, found out at the first check of each); the call
\* just made, the version it asked for and the error it raised; the
\* version of the last setHttpVersion that returned.
NoVersion == [httpVersion |-> "DEFAULT", HTTP_VERSION |-> "unset",
              features |-> [HTTP_2 |-> "unknown", HTTP_3 |-> "unknown"],
              op |-> "", asked |-> "", raised |-> "", wins |-> "DEFAULT",
              sends |-> 0]

\* The Request variables of a scope.
Slots == {"a", "b"}

\* A variable that holds no Request; a null unique_ptr is 0.
NoSlot == [live |-> FALSE, curlHandle |-> 0, list |-> 0, mime |-> 0]

\* No Request constructed, nothing created by libcurl, no call made yet.
\* res[i] is the i-th handle, list or mime that libcurl created, with the
\* number of times it was given back to libcurl.
NoRequests == [slot |-> [x \in Slots |-> NoSlot], res |-> <<>>,
               last |-> [op |-> "", d |-> "", s |-> "", raised |-> ""]]

\* A variable that holds no Request, for the moves: whether it holds a
\* handle, the XFERINFODATA and NOPROGRESS options of that handle (the
\* variable whose Request is bound as the bridge's context, "null" when
\* none is), and the members downloadFilePath, progressCallback and
\* httpVersion.
NoMover == [live |-> FALSE, curlHandle |-> FALSE,
            XFERINFODATA |-> "null", NOPROGRESS |-> 1,
            downloadFilePath |-> "",
            progressCallback |-> "none", httpVersion |-> "DEFAULT"]

\* No Request constructed and no call made; of the last call: the
\* operation, its destination and source, the error it raised, and for a
\* send the context the engine passed to the progress bridge ("none" when
\* the bridge was not called) and whether that context was a Request that
\* existed.
NoMovers == [slot |-> [x \in Slots |-> NoMover], ops |-> 0,
             last |-> [op |-> "", d |-> "", s |-> "", raised |-> "",
                       bridge |-> "none", ctxLive |-> FALSE]]

\* The threads of the process; each constructs, moves and destroys its own
\* Requests.
Threads == {"t1", "t2"}

\* detail::curlGlobalInitFlag, curlGlobalMutex ("" when free) and
\* instanceCount at program start, with the calls made so far to
\* curl_global_init, curl_global_cleanup, Request() and Request(Request&&),
\* and whether curl_easy_init was ever called before curl_global_init ended.
NoRuntime == [onceFlag |-> "new", mutex |-> "", instanceCount |-> 0,
              inits |-> 0, cleanups |-> 0, zeros |-> 0,
              constructs |-> 0, moves |-> 0, early |-> FALSE]

\* A thread outside any constructor or destructor, owning no Request.
NoThread == [pc |-> "idle", objs |-> 0, tmp |-> 0]

\* The args of a new Request, with the pairs added and the calls skipped
\* since construction or the last reset.
NoQuery == [args |-> <<>>, pairs |-> <<>>, skipped |-> 0]

\* No header line delivered yet: the empty std::map of a new Response.
NoHeaders == [lines |-> <<>>, headers |-> <<>>, refused |-> FALSE, got |-> <<>>]

(***************************************************************************)
(* Request::Request(): the state after construction with handle h.         *)
(***************************************************************************)
Construct(h) ==
    [method |-> "GET",
     curlHandle |-> h,
     opt |-> [FreshOpt EXCEPT !.HTTPGET = 1],
     list |-> <<>>,
     url |-> "", args |-> <<>>, body |-> "",
     mime |-> NoMime,
     downloadFilePath |-> "",
     progressCallback |-> "none",
     httpVersion |-> "DEFAULT"]

NoResponse == [httpCode |-> 0, body |-> <<>>, headers |-> <<>>]

NoFrame ==
    [attempts |-> 0, attempt |-> 0,
     response |-> NoResponse,
     responseStream |-> <<>>, fileOut |-> FALSE]

\* What a send did: the attempts it was called with, transfers started,
\* sleeps taken so far, the attempt whose transfer ended CURLE_OK (0: none)
\* and the status the engine reported for it, the result of the last
\* transfer that ended, whether the progress callback answered true during
\* the current transfer, and during any transfer of this send; the download
\* target the send started with, the body chunks the engine delivered
\* during the send and those of them written to the file.
NoObs == [attempts |-> 0, xfers |-> 0, slept |-> <<>>,
          okAttempt |-> 0, okCode |-> 0,
          res |-> "none", cancelled |-> FALSE, aborted |-> FALSE,
          path |-> "", delivered |-> <<>>, fileData |-> <<>>]

\* How a call ended: "ok" (a setter returned), "returned" (send returned
\* response) or the error raised, with what raised it; "running" while the
\* call is a send that has not ended.
Outcome(op, kind, cause) ==
    [op |-> op, kind |-> kind, cause |-> cause, response |-> NoResponse]

Init ==
    /\ req = Construct(NewHandle)
    /\ pc = "idle"
    /\ frame = NoFrame
    /\ last = Outcome("Request", "ok", "")
    /\ obs = NoObs
    /\ calls = 0
    /\ hdr = NoHeaders
    /\ qs = NoQuery
    /\ rt = NoRuntime
    /\ th = [t \in Threads |-> NoThread]
    /\ own = NoRequests
    /\ ver = NoVersion
    /\ hl = NoList
    /\ mv = NoMovers


(***************************************************************************)
(* Resource ownership: clean() and reset().                                *)
(***************************************************************************)
\* Request::clean(): releases mime, header list and handle (the unique_ptrs
\* are reset to null; the options live in the handle and go with it).
clean(r) ==
    [r EXCEPT !.mime = NoMime, !.list = <<>>,
              !.curlHandle = NullHandle, !.opt = FreshOpt]


\* A faulty reset(): as reset() below, but url.clear() is missing.
resetKeepsURL(r, h) ==
    LET c == clean(r)
        n == [c EXCEPT !.curlHandle = h, !.opt = [FreshOpt EXCEPT !.HTTPGET = 1]]
    IN  [n EXCEPT !.args = <<>>, !.body = "",
                  !.downloadFilePath = "", !.method = "GET"]

\* A faulty reset(): as reset() below, and progressCallback is emptied.
resetDropsCallback(r, h) ==
    LET c == clean(r)
        n == [c EXCEPT !.curlHandle = h, !.opt = [FreshOpt EXCEPT !.HTTPGET = 1]]
    IN  [n EXCEPT !.args = <<>>, !.url = "", !.body = "",
                  !.downloadFilePath = "", !.method = "GET",
                  !.progressCallback = "none"]

\* Request::reset() once curl_easy_init() has returned the handle h.
reset(r, h) ==
    LET c == clean(r)
        n == [c EXCEPT !.curlHandle = h, !.opt = [FreshOpt EXCEPT !.HTTPGET = 1]]
        m == [n EXCEPT !.args = <<>>, !.url = "", !.body = "",
                       !.downloadFilePath = "", !.method = "GET"]
    IN  [m EXCEPT !.opt = [m.opt EXCEPT
              !.HTTPHEADER = "null", !.MIMEPOST = "null",
              !.WRITEDATA = "null", !.WRITEFUNCTION = "null",
              !.COPYPOSTFIELDS = "null",
              !.HEADERDATA = "null", !.HEADERFUNCTION = "null",
              !.XFERINFODATA = "null", !.XFERINFOFUNCTION = "null"]]

(***************************************************************************)
(* The configuration setters, as functions of the Request.                 *)
(***************************************************************************)
\* A faulty guard of setMethod: the MIME check is missing.
MimeNeverLocked(r, m) == FALSE

\* The guard of setMethod: MIME cannot be overridden by another method.
MimeLocked(r, m) == r.method = "MIME" /\ m # "MIME"

\* Request::setMethod(m) past its guard.
applyMethod(r, m) ==
    LET r0 == setopt(setopt(setopt(r, "HTTPGET", 0), "POST", 0),
                     "CUSTOMREQUEST", "null")
        r1 == [r0 EXCEPT !.method = m]
    IN  CASE m = "MIME"  -> r1
          [] m = "GET"   -> setopt(r1, "HTTPGET", 1)
          [] m = "POST"  -> setopt(r1, "POST", 1)
          [] m = "PUT"   -> setopt(r1, "CUSTOMREQUEST", "PUT")
          [] m = "PATCH" -> setopt(r1, "CUSTOMREQUEST", "PATCH")
          [] m = "DEL"   -> setopt(r1, "CUSTOMREQUEST", "DELETE")
          [] m = "HEAD"  -> setopt(r1, "NOBODY", 1)

BodySize(b) == IF b = "" THEN 0 ELSE 2

\* A faulty setBody: the body is forwarded whatever the method.
applyBodyAnyMethod(r, b) ==
    setopt(setopt([r EXCEPT !.body = b], "POSTFIELDSIZE", BodySize(b)),
           "COPYPOSTFIELDS", b)

\* Request::setBody(b).
applyBody(r, b) ==
    LET r1 == [r EXCEPT !.body = b]
    IN  IF r1.method \in {"POST", "PUT", "PATCH"}
        THEN setopt(setopt(r1, "POSTFIELDSIZE", BodySize(b)), "COPYPOSTFIELDS", b)
        ELSE r1

\* Request::addHeader(line) when curl_slist_append succeeded.
applyHeader(r, line) ==
    setopt([r EXCEPT !.list = Append(@, line)], "HTTPHEADER", "list")

\* Request::addFormField / addFormFile once the mime structure exists:
\* initOk is whether curl_mime_init gave one when none existed.
ensureMime(r) ==
    IF r.mime.valid THEN r
    ELSE setopt([r EXCEPT !.mime = [valid |-> TRUE, parts |-> <<>>]],
                "MIMEPOST", "mime")

\* A faulty addpart: the part is added twice.
addPartTwice(r, kind) == [r EXCEPT !.mime.parts = Append(Append(@, kind), kind)]

\* curl_mime_addpart with the name and the data of the part.
addPart(r, kind) == [r EXCEPT !.mime.parts = Append(@, kind)]

\* A faulty updateURL: the args are left out.
updateURLWithoutArgs(r) == setopt(r, "URL", <<r.url>>)

\* Request::updateURL().
updateURL(r) ==
    setopt(r, "URL", IF r.args = <<>> THEN <<r.url>> ELSE <<r.url, "?">> \o r.args)

(***************************************************************************)
(* The setters as steps of the caller.                                     *)
(***************************************************************************)
\* The caller is between two calls on a Request that holds a handle.
Idle == pc = "idle" /\ req.curlHandle # NullHandle
\* A call that is not a send ends: nothing of the last send is remembered.
Forget == obs' = NoObs /\ UNCHANGED <<pc, frame>>
Returns == last' = Outcome("call", "ok", "")
Raises(op, kind, cause) == last' = Outcome(op, kind, cause)
Setter == Idle /\ calls < MaxCalls /\ calls' = calls + 1 /\ Forget

setMethod(m) ==
    /\ UNCHANGED aside
    /\ Setter
    /\ IF MimeLocked(req, m)
       THEN /\ Raises("setMethod", "LogicError", "mime")
            /\ UNCHANGED req
       ELSE /\ req' = applyMethod(req, m)
            /\ Returns

setURL(u) ==
    /\ UNCHANGED aside
    /\ Setter
    /\ req' = [req EXCEPT !.url = u]
    /\ Returns

addArg(pair, escaped) ==
    /\ UNCHANGED aside
    /\ Setter
    /\ req' = IF escaped THEN [req EXCEPT !.args = Append(@, pair)] ELSE req
    /\ Returns

setProgressCallback(cb) ==
    /\ UNCHANGED aside
    /\ Setter
    /\ req' = [req EXCEPT !.progressCallback = cb]
    /\ Returns

addHeader(line, appended) ==
    /\ UNCHANGED aside
    /\ Setter
    /\ IF appended
       THEN req' = applyHeader(req, line) /\ Returns
       ELSE UNCHANGED req /\ Raises("addHeader", "HeaderError", "append")

downloadToFile(path) ==
    /\ UNCHANGED aside
    /\ Setter
    /\ req' = [req EXCEPT !.downloadFilePath = path]
    /\ Returns

setBody(b) ==
    /\ UNCHANGED aside
    /\ Setter
    /\ req' = applyBody(req, b)
    /\ Returns

\* A faulty check: no version is refused.
VersionNeverRefused(version, supported) == FALSE

\* Request::setHttpVersion(version); supported is whether the libcurl build
\* has the feature HTTP/2 or HTTP/3 needs.
VersionRefused(version, supported) ==
    version \in {"HTTP_2", "HTTP_3"} /\ ~supported

setHttpVersion(version, supported) ==
    /\ UNCHANGED aside
    /\ Setter
    /\ IF VersionRefused(version, supported)
       THEN UNCHANGED req /\ Raises("setHttpVersion", "LogicError", "version")
       ELSE req' = [req EXCEPT !.httpVersion = version] /\ Returns

\* addFormField (kind "field") and addFormFile (kind "file").
addForm(kind, initOk, partOk) ==
    /\ UNCHANGED aside
    /\ Setter
    /\ IF ~req.mime.valid /\ ~initOk
       THEN UNCHANGED req /\ Raises("addForm", "MimeError", "init")
       ELSE IF ~partOk
       THEN req' = ensureMime(req) /\ Raises("addForm", "MimeError", "part")
       ELSE /\ req' = addPart(ensureMime(req), kind)
            /\ last' = Outcome("addForm", "ok", "")

\* A faulty explicit reset(): clean() runs before the new handle is
\* checked.
ResetCleansFirst(initOk) ==
    /\ UNCHANGED aside
    /\ Idle
    /\ IF initOk
       THEN req' = reset(req, NewHandle) /\ last' = Outcome("reset", "ok", "")
       ELSE req' = clean(req) /\ Raises("reset", "InitializationError", "init")
    /\ UNCHANGED calls
    /\ Forget

\* The caller's explicit reset(); initOk is whether curl_easy_init succeeded.
Reset(initOk) ==
    /\ UNCHANGED aside
    /\ Idle
    /\ IF initOk
       THEN req' = reset(req, NewHandle) /\ last' = Outcome("reset", "ok", "")
       ELSE UNCHANGED req /\ Raises("reset", "InitializationError", "init")
    /\ UNCHANGED calls
    /\ Forget

(***************************************************************************)
(* send(attempts).                                                         *)
(***************************************************************************)
\* The retry loop's constants and decisions (specification, section 4.3).
\* baseDelay, in the unit of the sleep; the specification names it without
\* giving its value.
BaseDelay == 100

Pow2(n) == IF n <= 0 THEN 1 ELSE 2 ^ n

\* A faulty attempts check: zero attempts pass.
AttemptsValidFromZero(attempts) == attempts >= 0

\* send(attempts) requires attempts >= 1, else LogicError.
AttemptsValid(attempts) == attempts >= 1

\* A faulty backoff: the exponent is the attempt number, not one less.
BackoffDelayOffByOne(k) == BaseDelay * Pow2(k)

\* The sleep before attempt k+1, after attempt k failed.
BackoffDelay(k) == BaseDelay * Pow2(k - 1)

\* After a failed attempt: do attempts remain?
AttemptsRemain(attempt, attempts) == attempt < attempts

\* The switch of send() from the version preference to the engine's value.
curl_http_version(v) ==
    CASE v = "HTTP_1_1" -> "CURL_HTTP_VERSION_1_1"
      [] v = "HTTP_2"   -> "CURL_HTTP_VERSION_2_0"
      [] v = "HTTP_3"   -> "CURL_HTTP_VERSION_3"
      [] OTHER          -> "CURL_HTTP_VERSION_NONE"

\* The configuration send() puts on the handle before the transfer
\* (progress bridge, write target, header callback, URL, HTTP version).
sendSetup(r) ==
    LET r1 == IF r.progressCallback # "none"
              THEN setopt(setopt(setopt(r,
                       "XFERINFOFUNCTION", "ProgressCallbackBridge"),
                       "XFERINFODATA", "this"), "NOPROGRESS", 0)
              ELSE r
        r2 == IF r1.downloadFilePath # ""
              THEN setopt(r1, "WRITEDATA", "fileOut")
              ELSE setopt(setopt(r1, "WRITEFUNCTION", "WriteCallback"),
                          "WRITEDATA", "responseStream")
        r3 == setopt(setopt(r2, "HEADERFUNCTION", "HeaderCallback"),
                     "HEADERDATA", "response.headers")
    IN  setopt(updateURL(r3), "HTTP_VERSION", curl_http_version(r.httpVersion))

\* send() up to the failure of fopen: only the progress options are set.
sendSetupNoFile(r) ==
    IF r.progressCallback # "none"
    THEN setopt(setopt(setopt(r,
             "XFERINFOFUNCTION", "ProgressCallbackBridge"),
             "XFERINFODATA", "this"), "NOPROGRESS", 0)
    ELSE r

\* detail::ProgressCallbackBridge: the value it returns to the engine when
\* the callback of the Request it is bound to answers shouldCancel.
ProgressCallbackBridge(r, shouldCancel) ==
    IF r.progressCallback # "none"
    THEN (IF shouldCancel THEN 1 ELSE 0)
    ELSE 0

\* Does the engine call the progress function during a transfer on r's handle?
ProgressEnabled(r) ==
    r.opt.XFERINFOFUNCTION = "ProgressCallbackBridge" /\ r.opt.NOPROGRESS = 0

\* A faulty result check: an abort by the callback is not taken for a
\* failure.
TransferFailedButAbort(res) ==
    res \notin {"CURLE_OK", "CURLE_ABORTED_BY_CALLBACK"}

\* "if (res != CURLE_OK)": the transfer failed at the transport level.
TransferFailed(res) == res # "CURLE_OK"

\* "if (downloadFilePath.empty()) response.body = responseStream.str()".
storeBody(r, f) ==
    IF r.downloadFilePath = ""
    THEN [f.response EXCEPT !.body = f.responseStream]
    ELSE f.response

\* The frame of attempt k before its transfer.  The response, the stream
\* and the file are those send set up before the loop: the callbacks only
\* add to them and nothing empties them between two attempts.
attemptFrame(f, k) == [f EXCEPT !.attempt = k]

\* The caller calls send(attempts); openOk is whether fopen succeeds.
send(attempts, openOk) ==
    /\ UNCHANGED aside
    /\ Idle
    /\ IF ~AttemptsValid(attempts)
       THEN /\ Raises("send", "LogicError", "attempts")
            /\ UNCHANGED <<req, calls>>
            /\ Forget
       ELSE IF req.downloadFilePath # "" /\ ~openOk
       THEN /\ req' = sendSetupNoFile(req)
            /\ Raises("send", "RequestError", "fopen")
            /\ UNCHANGED calls
            /\ Forget
       ELSE /\ req' = sendSetup(req)
            /\ frame' = [attemptFrame(NoFrame, 1) EXCEPT
                            !.attempts = attempts,
                            !.fileOut = (req.downloadFilePath # "")]
            /\ obs' = [NoObs EXCEPT !.attempts = attempts, !.xfers = 1,
                                    !.path = req.downloadFilePath]
            /\ pc' = "perform"
            /\ last' = Outcome("send", "running", "")
            /\ UNCHANGED calls

\* What the engine has delivered during the send.
Received(f) == Len(f.response.headers) + Len(obs.delivered)

\* Where the engine's write call puts body bytes.  With no write function
\* set the engine's default writes them to the FILE* in WRITEDATA; with
\* detail::WriteCallback they go to the std::ostringstream in WRITEDATA.
\* WriteCallback handed a FILE* (a write function left on the handle by an
\* earlier send, then a send with a download target) casts it to a stream:
\* undefined behaviour, the bytes may land anywhere or nowhere.
WriteTargets(r) ==
    IF r.opt.WRITEFUNCTION = "null" /\ r.opt.WRITEDATA = "fileOut"
    THEN {"file"}
    ELSE IF r.opt.WRITEFUNCTION = "WriteCallback"
            /\ r.opt.WRITEDATA = "responseStream"
    THEN {"memory"}
    ELSE {"file", "memory", "lost"}

\* A faulty end of send: the file is left open.
fcloseSkipped(f) == f.fileOut

\* "if (fileOut) { std::fclose(fileOut); fileOut = nullptr; }".
fclose(f) == FALSE

\* The engine delivers a header line to detail::HeaderCallback.
RecvHeader ==
    /\ UNCHANGED aside
    /\ pc = "perform"
    /\ Received(frame) < MaxChunks
    /\ req.opt.HEADERFUNCTION = "HeaderCallback"
    /\ frame' = [frame EXCEPT !.response.headers = Append(@, frame.attempt)]
    /\ UNCHANGED <<req, pc, last, obs, calls>>

\* The engine delivers body bytes to the write target.
RecvBody ==
    /\ UNCHANGED aside
    /\ pc = "perform"
    /\ Received(frame) < MaxChunks
    /\ \E target \in WriteTargets(req) :
          /\ frame' = IF target = "memory"
                      THEN [frame EXCEPT
                              !.responseStream = Append(@, frame.attempt)]
                      ELSE frame
          /\ obs' = [obs EXCEPT
                       !.delivered = Append(@, frame.attempt),
                       !.fileData = IF target = "file"
                                    THEN Append(@, frame.attempt) ELSE @]
    /\ UNCHANGED <<req, pc, last, calls>>

\* What is remembered of a transfer that ended with res: it counts as the
\* successful one, with its status code, when it ended CURLE_OK.
transferSeen(o, res, k, code) ==
    [o EXCEPT !.res = res,
              !.okAttempt = IF res = "CURLE_OK" THEN k ELSE @,
              !.okCode = IF res = "CURLE_OK" THEN code ELSE @]

\* The end of send() after a transfer that did not fail, with the status
\* code the engine reports: the body is stored, reset() is called and the
\* response returned; when reset() cannot create a handle its
\* InitializationException leaves send instead.
sendSucceeds(o, res, code) ==
    /\ pc' = "idle"
    /\ frame' = [NoFrame EXCEPT !.fileOut = fclose(frame)]
    /\ obs' = transferSeen(o, res, frame.attempt, code)
    /\ UNCHANGED calls
    /\ LET f1 == [frame EXCEPT !.response.httpCode = code]
       IN  \E initOk \in BOOLEAN :
              IF initOk
              THEN /\ req' = reset(req, NewHandle)
                   /\ last' = [Outcome("send", "returned", "")
                                 EXCEPT !.response = storeBody(req, f1)]
              ELSE /\ UNCHANGED req
                   /\ Raises("send", "InitializationError", "ok")

\* The last attempt failed: send resets the Request and raises the
\* RequestError (specification, section 4.3 step 3); reset() is the one of
\* the source, which raises when it cannot create a handle.
sendFails(o, res) ==
    /\ pc' = "idle"
    /\ frame' = [NoFrame EXCEPT !.fileOut = fclose(frame)]
    /\ obs' = transferSeen(o, res, frame.attempt, 0)
    /\ UNCHANGED calls
    /\ \E initOk \in BOOLEAN :
          IF initOk
          THEN /\ req' = reset(req, NewHandle)
               /\ Raises("send", "RequestError", "transport")
          ELSE /\ UNCHANGED req
               /\ Raises("send", "InitializationError", "transport")

\* A failed attempt with attempts remaining: send goes to sleep.
sendRetries(o, res) ==
    /\ pc' = "backoff"
    /\ frame' = attemptFrame(frame, frame.attempt)
    /\ obs' = transferSeen(o, res, frame.attempt, 0)
    /\ UNCHANGED <<req, last, calls>>

\* send() from the return of curl_easy_perform with result res; o is what
\* the send did up to there.
performReturns(o, res) ==
    IF TransferFailed(res)
    THEN IF AttemptsRemain(frame.attempt, frame.attempts)
         THEN sendRetries(o, res)
         ELSE sendFails(o, res)
    ELSE \E code \in StatusCodes : sendSucceeds(o, res, code)

\* curl_easy_perform ends by itself: with CURLE_OK or a transport failure.
TransferEnds(res) ==
    /\ UNCHANGED aside
    /\ pc = "perform"
    /\ performReturns(obs, res)

\* The engine calls the progress function of the handle; when it returns
\* non-zero the transfer ends with CURLE_ABORTED_BY_CALLBACK.
ProgressTick(shouldCancel) ==
    /\ UNCHANGED aside
    /\ pc = "perform"
    /\ ProgressEnabled(req)
    /\ LET answered == req.progressCallback # "none" /\ shouldCancel
           o == [obs EXCEPT !.cancelled = @ \/ answered,
                            !.aborted = @ \/ answered]
       IN  IF ProgressCallbackBridge(req, shouldCancel) # 0
           THEN performReturns(o, "CURLE_ABORTED_BY_CALLBACK")
           ELSE /\ obs' = o
                /\ UNCHANGED <<req, pc, frame, last, calls>>

\* The sleep between a failed attempt and the next one, which then starts.
Backoff ==
    /\ UNCHANGED aside
    /\ pc = "backoff"
    /\ obs' = [obs EXCEPT !.slept = Append(@, BackoffDelay(frame.attempt)),
                          !.xfers = @ + 1, !.res = "none",
                          !.cancelled = FALSE]
    /\ frame' = attemptFrame(frame, frame.attempt + 1)
    /\ pc' = "perform"
    /\ UNCHANGED <<req, last, calls>>

Next ==
    \/ \E m \in Methods : setMethod(m)
    \/ \E u \in URLs : setURL(u)
    \/ \E a \in ArgPairs, escaped \in BOOLEAN : addArg(a, escaped)
    \/ \E cb \in Callbacks : setProgressCallback(cb)
    \/ \E h \in HeaderLines, appended \in BOOLEAN : addHeader(h, appended)
    \/ \E p \in Paths : downloadToFile(p)
    \/ \E b \in Bodies : setBody(b)
    \/ \E v \in HttpVersions, supported \in BOOLEAN : setHttpVersion(v, supported)
    \/ \E k \in PartKinds, initOk \in BOOLEAN, partOk \in BOOLEAN :
          addForm(k, initOk, partOk)
    \/ \E initOk \in BOOLEAN : Reset(initOk)
    \/ \E n \in 0..MaxAttempts, openOk \in BOOLEAN : send(n, openOk)
    \/ RecvHeader
    \/ RecvBody
    \/ \E res \in {"CURLE_OK"} \cup FailCodes : TransferEnds(res)
    \/ \E shouldCancel \in BOOLEAN : ProgressTick(shouldCancel)
    \/ Backoff

Spec == Init /\ [][Next]_vars

(***************************************************************************)
(* Properties of send and setMethod.                                       *)
(***************************************************************************)
\* The caller has a send behind it that ended (returned or raised).
SendEnded == pc = "idle" /\ last.op = "send"

\* A send ended that performed transfers, all of which failed.
AllFailed == SendEnded /\ obs.xfers >= 1 /\ obs.okAttempt = 0

\* Everything in the response was received during attempt k.
FromAttempt(resp, k) ==
    /\ \A i \in 1..Len(resp.headers) : resp.headers[i] = k
    /\ \A i \in 1..Len(resp.body) : resp.body[i] = k

\* The state reset() establishes, the kept members aside.
CleanState(r) ==
    /\ r.method = "GET"
    /\ r.url = "" /\ r.args = <<>> /\ r.body = ""
    /\ r.list = <<>> /\ r.mime = NoMime
    /\ r.downloadFilePath = ""
    /\ r.curlHandle # NullHandle
    /\ r.opt = [FreshOpt EXCEPT !.HTTPGET = 1]

RECURSIVE SumSeq(_)
SumSeq(q) == IF q = <<>> THEN 0 ELSE Head(q) + SumSeq(Tail(q))

C2_FirstSuccessReturns ==
    /\ pc # "idle" => obs.okAttempt = 0
    /\ (SendEnded /\ obs.okAttempt >= 1) =>
          /\ obs.xfers = obs.okAttempt
          /\ last.kind = "returned"
          /\ FromAttempt(last.response, obs.okAttempt)

\* C3: a transfer that ended CURLE_OK is never retried and never makes send
\* raise, whatever its HTTP status: send returns a Response with that
\* status; backoff and RequestError only follow a non-OK result.
C3_TransportOkReturnsStatus ==
    /\ pc = "backoff" => obs.res # "CURLE_OK"
    /\ (SendEnded /\ obs.res = "CURLE_OK") =>
          /\ last.kind = "returned"
          /\ last.response.httpCode = obs.okCode
    /\ (SendEnded /\ last.kind = "RequestError" /\ obs.xfers >= 1) =>
          obs.res # "CURLE_OK"

\* C4: the sleep after failed attempt k < attempts is baseDelay * 2^(k-1);
\* there is no sleep after the last failed attempt nor after a success, so
\* a send whose n attempts all fail has slept baseDelay * (2^(n-1) - 1).
C4_BackoffDoubles ==
    /\ \A i \in 1..Len(obs.slept) : obs.slept[i] = BaseDelay * 2^(i - 1)
    /\ obs.xfers >= 1 => Len(obs.slept) = obs.xfers - 1
    /\ pc = "backoff" => /\ frame.attempt < frame.attempts
                         /\ obs.res # "CURLE_OK"
    /\ AllFailed =>
          SumSeq(obs.slept) = BaseDelay * (2^(obs.attempts - 1) - 1)

\* C4's case: all three attempts of send(3) failed, after sleeps of
\* baseDelay and 2 * baseDelay.
C4_Witness ==
    /\ AllFailed
    /\ obs.attempts = 3
    /\ obs.slept = <<BaseDelay, 2 * BaseDelay>>

C6_ZeroAttemptsRejected ==
    [][ /\ (pc = "idle" /\ last'.op = "send" /\ last'.kind = "LogicError") =>
              /\ req' = req
              /\ pc' = "idle" /\ frame' = frame
              /\ obs'.xfers = 0
        /\ pc' = "perform" => frame'.attempts >= 1 ]_vars

\* C6's case: send(0) was refused on a Request that had been configured.
C6_Witness ==
    /\ SendEnded /\ last.kind = "LogicError"
    /\ req.url # "" /\ req.method # "GET"

\* C7: when the last attempt of send has failed, RequestError reaches the
\* caller with the Request already reset to the clean state.
C7_LastFailureResets ==
    AllFailed => /\ last.kind = "RequestError"
                 /\ CleanState(req)

C10_MimeSticky ==
    [][ /\ (pc = "idle" /\ last'.op = "setMethod"
              /\ last'.kind = "LogicError") =>
              /\ req.method = "MIME"
              /\ req' = req
        /\ req.method = "MIME" =>
              /\ ~MimeLocked(req, "MIME")
              /\ applyMethod(req, "MIME") = req
        /\ (req.method = "MIME" /\ req'.method # "MIME") =>
              /\ req' = reset(req, NewHandle)
              /\ last'.kind \in {"ok", "returned", "RequestError"} ]_vars

\* C10's case: a method other than MIME was refused on a MIME Request.
C10_Witness ==
    /\ pc = "idle"
    /\ last.op = "setMethod" /\ last.kind = "LogicError"
    /\ req.method = "MIME"

(***************************************************************************)
(* Response headers: detail::HeaderCallback and Response::getHeader.       *)
(* Text is a sequence of characters.                                       *)
(***************************************************************************)
MaxLines == 3         \* header lines the engine delivers for one Response

\* Raw header lines the engine may deliver: "K: v\r\n", "k:V", " K :v:v",
\* the blank separator "\r\n", the empty line, "v:", ":v", "Kv" (no colon)
\* and "K:  " (a value of spaces only).
RawLines ==
    { <<"K", ":", " ", "v", "\r", "\n">>,
      <<"k", ":", "V">>,
      <<" ", "K", " ", ":", "v", ":", "v">>,
      <<"\r", "\n">>,
      <<>>,
      <<"v", ":">>,
      <<":", "v">>,
      <<"K", "v">>,
      <<"K", ":", " ", " ">> }

\* Keys a caller may look up.
LookupKeys == { <<"K">>, <<"k">>, <<"V">>, <<"v">>, <<>>, <<"K", "v">> }

\* std::isspace and std::tolower on the characters in use.
isspace(ch) == ch \in {" ", "\t", "\n", "\r"}
tolower(ch) ==
    CASE ch = "K" -> "k"
      [] ch = "V" -> "v"
      [] OTHER    -> ch

\* std::string::npos.
npos == -1

\* A faulty split: the position of the last c (from 0), or npos.
RECURSIVE rfindFrom(_, _, _)
rfindFrom(str, c, i) ==
    IF i < 1 THEN npos
    ELSE IF str[i] = c THEN i - 1
    ELSE rfindFrom(str, c, i - 1)
rfind(str, c) == rfindFrom(str, c, Len(str))

\* std::string::find(c): the first position of c (from 0), or npos.
RECURSIVE findFrom(_, _, _)
findFrom(str, c, i) ==
    IF i > Len(str) THEN npos
    ELSE IF str[i] = c THEN i - 1
    ELSE findFrom(str, c, i + 1)
find(str, c) == findFrom(str, c, 1)

\* std::string::substr(pos) and substr(pos, n), positions from 0.
substr(str, pos, n) == SubSeq(str, pos + 1, pos + n)
substrFrom(str, pos) == SubSeq(str, pos + 1, Len(str))

\* detail::trim: erase up to the first non-space, then from after the last.
RECURSIVE eraseLeading(_)
eraseLeading(str) ==
    IF str # <<>> /\ isspace(Head(str)) THEN eraseLeading(Tail(str)) ELSE str
RECURSIVE eraseTrailing(_)
eraseTrailing(str) ==
    IF str # <<>> /\ isspace(str[Len(str)])
    THEN eraseTrailing(SubSeq(str, 1, Len(str) - 1))
    ELSE str
trim(str) == eraseTrailing(eraseLeading(str))

\* detail::toLowerCase.
toLowerCase(str) == [i \in 1..Len(str) |-> tolower(str[i])]

\* (*headerMap)[key].push_back(value).
push_back(map, key, value) ==
    [k \in DOMAIN map \cup {key} |->
        IF k = key
        THEN Append(IF key \in DOMAIN map THEN map[key] ELSE <<>>, value)
        ELSE map[k]]

\* detail::HeaderCallback on headerLine: the map after it, and what it
\* returns to the engine.
HeaderCallbackMap(map, headerLine) ==
    IF headerLine = <<>> THEN map
    ELSE LET colonPos == find(headerLine, ":")
         IN  IF colonPos # npos
             THEN push_back(map,
                            toLowerCase(trim(substr(headerLine, 0, colonPos))),
                            trim(substrFrom(headerLine, colonPos + 1)))
             ELSE map
HeaderCallbackReturn(headerLine) ==
    IF headerLine = <<>> THEN 0 ELSE Len(headerLine)

\* A faulty lookup: the key is not lowercased.
getHeaderExact(headers, key) ==
    IF key \in DOMAIN headers THEN headers[key] ELSE <<>>

\* Response::getHeader(key).
getHeader(headers, key) ==
    LET lowered == toLowerCase(key)
    IN  IF lowered \in DOMAIN headers THEN headers[lowered] ELSE <<>>

\* The engine delivers a raw header line; it ends the transfer when the
\* callback does not return the line's size.
DeliverHeaderLine(line) ==
    /\ Len(hdr.lines) < MaxLines
    /\ ~hdr.refused
    /\ hdr' = [hdr EXCEPT
                 !.lines = Append(@, line),
                 !.headers = HeaderCallbackMap(@, line),
                 !.refused = (HeaderCallbackReturn(line) # Len(line)),
                 !.got = <<>>]
    /\ UNCHANGED <<reqvars, mv, ver, hl, qs, rt, th, own>>

\* The caller looks a header up in the Response.
LookUpHeader(key) ==
    /\ hdr.lines # <<>>
    /\ hdr' = [hdr EXCEPT !.got = <<key, getHeader(hdr.headers, key)>>]
    /\ UNCHANGED <<reqvars, mv, ver, hl, qs, rt, th, own>>

NextHeaders ==
    \/ \E line \in RawLines : DeliverHeaderLine(line)
    \/ \E key \in LookupKeys : LookUpHeader(key)

SpecHeaders == Init /\ [][NextHeaders]_vars

\* The rule for header lines, stated on a line as a whole.
UpperCase == {"K", "V"}
RuleHasColon(l) == \E i \in 1..Len(l) : l[i] = ":"
RuleColon(l) ==
    CHOOSE i \in 1..Len(l) : l[i] = ":" /\ \A j \in 1..(i - 1) : l[j] # ":"
RuleTrim(str) ==
    LET solid == {i \in 1..Len(str) : ~isspace(str[i])}
    IN  IF solid = {} THEN <<>>
        ELSE SubSeq(str,
                    CHOOSE i \in solid : \A j \in solid : i <= j,
                    CHOOSE i \in solid : \A j \in solid : i >= j)
RuleLower(str) ==
    [i \in 1..Len(str) |-> IF str[i] \in UpperCase THEN tolower(str[i]) ELSE str[i]]
RuleKey(l) == RuleLower(RuleTrim(SubSeq(l, 1, RuleColon(l) - 1)))
RuleValue(l) == RuleTrim(SubSeq(l, RuleColon(l) + 1, Len(l)))
\* The values the lines give for key k, in the order of the lines.
RECURSIVE RuleValues(_, _)
RuleValues(lines, k) ==
    IF lines = <<>> THEN <<>>
    ELSE LET l == lines[Len(lines)]
             before == RuleValues(SubSeq(lines, 1, Len(lines) - 1), k)
         IN  IF RuleHasColon(l) /\ RuleKey(l) = k
             THEN Append(before, RuleValue(l))
             ELSE before

\* C11: after any sequence of raw header lines, the header map holds, for
\* each line with a colon, the trimmed text after its first colon under the
\* trimmed, lowercased text before it, values in arrival order; a line
\* without a colon adds nothing and does not end the transfer; every key
\* is lowercase.
C11_HeadersFollowRule ==
    /\ ~hdr.refused
    /\ DOMAIN hdr.headers =
          {RuleKey(hdr.lines[i]) :
              i \in {j \in 1..Len(hdr.lines) : RuleHasColon(hdr.lines[j])}}
    /\ \A k \in DOMAIN hdr.headers :
          /\ hdr.headers[k] = RuleValues(hdr.lines, k)
          /\ \A i \in 1..Len(k) : k[i] \notin UpperCase

\* C11's case: "K: v\r\n" and "k:V" arrived with a line without a colon
\* among the three lines: both values are under "k", in that order.
C11_Witness ==
    /\ Len(hdr.lines) = 3
    /\ \E i \in 1..3 : ~RuleHasColon(hdr.lines[i])
    /\ <<"k">> \in DOMAIN hdr.headers
    /\ hdr.headers[<<"k">>] = << <<"v">>, <<"V">> >>

\* C12: getHeader(key) returns the values received under that name, in
\* arrival order and whatever the casing of key, the empty list when there
\* are none, and leaves the Response as it was.
C12_GetHeaderAnyCase ==
    [][ hdr'.got # <<>> =>
          /\ hdr'.headers = hdr.headers
          /\ hdr'.lines = hdr.lines
          /\ hdr'.got[2] = RuleValues(hdr.lines, RuleLower(hdr'.got[1]))
          /\ \A key \in LookupKeys :
                RuleLower(key) = RuleLower(hdr'.got[1]) =>
                   getHeader(hdr.headers, key) = hdr'.got[2] ]_vars

\* C12's case: the lookup of "K" found the two values received as "K" and
\* as "k".
C12_Witness ==
    hdr.got = << <<"K">>, << <<"v">>, <<"V">> >> >>

(***************************************************************************)
(* The query string: Request::addArg on text.                              *)
(***************************************************************************)
MaxArgs == 3          \* addArg calls on a Request between two resets

\* Keys and values a caller may pass: "", "a", "a b" and "&=".
ArgTexts == { <<>>, <<"a">>, <<"a", " ", "b">>, <<"&", "=">> }

\* curl_easy_escape on one character: letters stay, the others become
\* '%' and their two hexadecimal digits.
escapeChar(ch) ==
    CASE ch = " " -> <<"%", "2", "0">>
      [] ch = "&" -> <<"%", "2", "6">>
      [] ch = "=" -> <<"%", "3", "D">>
      [] OTHER    -> <<ch>>

\* curl_easy_escape(handle, text, 0) when it does not fail.
RECURSIVE curl_easy_escape(_)
curl_easy_escape(text) ==
    IF text = <<>> THEN <<>>
    ELSE escapeChar(Head(text)) \o curl_easy_escape(Tail(text))

\* A faulty append: the separator is written before every pair.
appendArgAlwaysAmp(args, escapedKey, escapedValue) ==
    args \o <<"&">> \o escapedKey \o <<"=">> \o escapedValue

\* args.append(args.empty() ? "" : "&").append(escapedKey + "=" + escapedValue).
appendArg(args, escapedKey, escapedValue) ==
    (args \o (IF args = <<>> THEN <<>> ELSE <<"&">>))
       \o (escapedKey \o <<"=">> \o escapedValue)

\* Request::addArg(key, value); keyOk and valueOk are whether
\* curl_easy_escape returned a string for each.
AddArgText(key, value, keyOk, valueOk) ==
    /\ Len(qs.pairs) + qs.skipped < MaxArgs
    /\ qs' = IF keyOk /\ valueOk
             THEN [qs EXCEPT
                     !.args = appendArg(@, curl_easy_escape(key),
                                        curl_easy_escape(value)),
                     !.pairs = Append(@, <<key, value>>)]
             ELSE [qs EXCEPT !.skipped = @ + 1]
    /\ UNCHANGED <<reqvars, mv, ver, hl, hdr, rt, th, own>>

\* Request::reset(): args.clear().
ClearArgs ==
    /\ qs # NoQuery
    /\ qs' = NoQuery
    /\ UNCHANGED <<reqvars, mv, ver, hl, hdr, rt, th, own>>

NextQuery ==
    \/ \E key \in ArgTexts, value \in ArgTexts,
          keyOk \in BOOLEAN, valueOk \in BOOLEAN :
          AddArgText(key, value, keyOk, valueOk)
    \/ ClearArgs

SpecQuery == Init /\ [][NextQuery]_vars

\* The query string of a sequence of pairs: the escaped pairs with "&"
\* between them.
RulePair(pair) == curl_easy_escape(pair[1]) \o <<"=">> \o curl_easy_escape(pair[2])
RECURSIVE RuleQuery(_)
RuleQuery(pairs) ==
    IF pairs = <<>> THEN <<>>
    ELSE IF Len(pairs) = 1 THEN RulePair(pairs[1])
    ELSE RulePair(pairs[1]) \o <<"&">> \o RuleQuery(Tail(pairs))
CountChar(text, ch) == Cardinality({i \in 1..Len(text) : text[i] = ch})

\* C13: the query string is the escaped key=value pairs of the addArg calls
\* since construction or the last reset, in call order, joined by single
\* "&" with none leading or trailing; a call whose escaping failed is not
\* among them and left the query string as it was.
C13_QueryStringJoined ==
    /\ qs.args = RuleQuery(qs.pairs)
    /\ CountChar(qs.args, "=") = Len(qs.pairs)
    /\ qs.pairs # <<>> =>
          /\ CountChar(qs.args, "&") = Len(qs.pairs) - 1
          /\ qs.args[1] # "&" /\ qs.args[Len(qs.args)] # "&"
          /\ \A i \in 1..(Len(qs.args) - 1) :
                ~(qs.args[i] = "&" /\ qs.args[i + 1] = "&")
    /\ qs.pairs = <<>> => qs.args = <<>>

\* C13's case: addArg("a", "a b"), a call whose escaping failed, then
\* addArg("&=", ""): the query string is "a=a%20b&%26%3D=".
C13_Witness ==
    /\ qs.skipped = 1
    /\ qs.pairs = << << <<"a">>, <<"a", " ", "b">> >>, << <<"&", "=">>, <<>> >> >>
    /\ qs.args = <<"a", "=", "a", "%", "2", "0", "b", "&",
                   "%", "2", "6", "%", "3", "D", "=">>

(***************************************************************************)
(* The global runtime: detail::ensureCurlGlobalInit and                    *)
(* detail::maybeCleanupGlobalCurl under threads.                           *)
(***************************************************************************)
MaxConstructs == 3    \* calls of Request() in the process
MaxMoves == 1         \* calls of Request(Request&&) in the process

\* A faulty once guard: the callable runs unless a run has completed.
onceRunsUnlessDone(flag) == flag # "done"

\* std::call_once: the callable runs for the first caller only.
onceRuns(flag) == flag = "new"

\* std::call_once returns without running once a run has completed; while
\* a run is in progress the caller waits.
oncePasses(flag) == flag = "done"

\* std::lock_guard's constructor returns when the mutex is free.
CanLock == rt.mutex = ""

At(t, where) == th[t].pc = where
Goto(t, where) == th' = [th EXCEPT ![t].pc = where]

\* Request::Request() is called on thread t.
Construct_Begin(t) ==
    /\ At(t, "idle")
    /\ rt.constructs < MaxConstructs
    /\ rt' = [rt EXCEPT !.constructs = @ + 1]
    /\ Goto(t, "once")
    /\ UNCHANGED <<reqvars, mv, ver, hl, hdr, qs, own>>

\* ensureCurlGlobalInit: call_once starts the callable.
Once_Enter(t) ==
    /\ At(t, "once")
    /\ onceRuns(rt.onceFlag)
    /\ rt' = [rt EXCEPT !.onceFlag = "running"]
    /\ Goto(t, "init")
    /\ UNCHANGED <<reqvars, mv, ver, hl, hdr, qs, own>>

\* ensureCurlGlobalInit: curl_global_init(CURL_GLOBAL_DEFAULT) returns and
\* the flag is set.
Once_Init(t) ==
    /\ At(t, "init")
    /\ rt' = [rt EXCEPT !.inits = @ + 1, !.onceFlag = "done"]
    /\ Goto(t, "lock")
    /\ UNCHANGED <<reqvars, mv, ver, hl, hdr, qs, own>>

\* ensureCurlGlobalInit: call_once returns without running the callable.
Once_Skip(t) ==
    /\ At(t, "once")
    /\ oncePasses(rt.onceFlag)
    /\ Goto(t, "lock")
    /\ UNCHANGED <<reqvars, mv, ver, hl, hdr, qs, rt, own>>

\* ensureCurlGlobalInit: std::lock_guard lock(curlGlobalMutex).
Inc_Lock(t) ==
    /\ At(t, "lock")
    /\ CanLock
    /\ rt' = [rt EXCEPT !.mutex = t]
    /\ Goto(t, "read")
    /\ UNCHANGED <<reqvars, mv, ver, hl, hdr, qs, own>>

\* ensureCurlGlobalInit: ++instanceCount reads the counter.
Inc_Read(t) ==
    /\ At(t, "read")
    /\ th' = [th EXCEPT ![t].pc = "write", ![t].tmp = rt.instanceCount]
    /\ UNCHANGED <<reqvars, mv, ver, hl, hdr, qs, rt, own>>

\* ensureCurlGlobalInit: ++instanceCount writes the counter; the guard
\* unlocks on return.
Inc_Write(t) ==
    /\ At(t, "write")
    /\ rt' = [rt EXCEPT !.instanceCount = th[t].tmp + 1,
                        !.mutex = IF @ = t THEN "" ELSE @]
    /\ th' = [th EXCEPT ![t].pc = "easy", ![t].tmp = 0]
    /\ UNCHANGED <<reqvars, mv, ver, hl, hdr, qs, own>>

\* Request::Request(): curlHandle.reset(curl_easy_init()); a null handle
\* throws InitializationException and no Request exists.
Construct_End(t, initOk) ==
    /\ At(t, "easy")
    /\ rt' = [rt EXCEPT !.early = @ \/ rt.onceFlag # "done"]
    /\ th' = [th EXCEPT ![t].pc = "idle",
                        ![t].objs = IF initOk THEN @ + 1 ELSE @]
    /\ UNCHANGED <<reqvars, mv, ver, hl, hdr, qs, own>>

\* Request::Request(Request&&) on thread t, from one of its Requests.
MoveConstruct(t) ==
    /\ At(t, "idle")
    /\ th[t].objs >= 1
    /\ rt.moves < MaxMoves
    /\ rt' = [rt EXCEPT !.moves = @ + 1]
    /\ th' = [th EXCEPT ![t].objs = @ + 1]
    /\ UNCHANGED <<reqvars, mv, ver, hl, hdr, qs, own>>

\* Request::~Request() on thread t: clean(), then maybeCleanupGlobalCurl
\* is entered.
Destroy_Begin(t) ==
    /\ At(t, "idle")
    /\ th[t].objs >= 1
    /\ th' = [th EXCEPT ![t].pc = "dlock", ![t].objs = @ - 1]
    /\ UNCHANGED <<reqvars, mv, ver, hl, hdr, qs, rt, own>>

\* maybeCleanupGlobalCurl: std::lock_guard lock(curlGlobalMutex).
Dec_Lock(t) ==
    /\ At(t, "dlock")
    /\ CanLock
    /\ rt' = [rt EXCEPT !.mutex = t]
    /\ Goto(t, "dread")
    /\ UNCHANGED <<reqvars, mv, ver, hl, hdr, qs, own>>

\* maybeCleanupGlobalCurl: --instanceCount reads the counter.
Dec_Read(t) ==
    /\ At(t, "dread")
    /\ th' = [th EXCEPT ![t].pc = "dwrite", ![t].tmp = rt.instanceCount]
    /\ UNCHANGED <<reqvars, mv, ver, hl, hdr, qs, rt, own>>

\* maybeCleanupGlobalCurl: --instanceCount writes the counter and tests it
\* against zero; unless it is zero the guard unlocks on return.
Dec_Write(t) ==
    /\ At(t, "dwrite")
    /\ LET count == th[t].tmp - 1 IN
       IF count = 0
       THEN /\ rt' = [rt EXCEPT !.instanceCount = count, !.zeros = @ + 1]
            /\ th' = [th EXCEPT ![t].pc = "cleanup", ![t].tmp = 0]
       ELSE /\ rt' = [rt EXCEPT !.instanceCount = count,
                                !.mutex = IF @ = t THEN "" ELSE @]
            /\ th' = [th EXCEPT ![t].pc = "idle", ![t].tmp = 0]
    /\ UNCHANGED <<reqvars, mv, ver, hl, hdr, qs, own>>

\* maybeCleanupGlobalCurl: curl_global_cleanup(); the guard unlocks on
\* return.
Dec_Cleanup(t) ==
    /\ At(t, "cleanup")
    /\ rt' = [rt EXCEPT !.cleanups = @ + 1,
                        !.mutex = IF @ = t THEN "" ELSE @]
    /\ Goto(t, "idle")
    /\ UNCHANGED <<reqvars, mv, ver, hl, hdr, qs, own>>

NextGlobal ==
    \E t \in Threads :
       \/ Construct_Begin(t)
       \/ Once_Enter(t)
       \/ Once_Init(t)
       \/ Once_Skip(t)
       \/ Inc_Lock(t)
       \/ Inc_Read(t)
       \/ Inc_Write(t)
       \/ \E initOk \in BOOLEAN : Construct_End(t, initOk)
       \/ MoveConstruct(t)
       \/ Destroy_Begin(t)
       \/ Dec_Lock(t)
       \/ Dec_Read(t)
       \/ Dec_Write(t)
       \/ Dec_Cleanup(t)

SpecGlobal == Init /\ [][NextGlobal]_vars

\* No thread is inside a constructor or destructor.
AllIdle == \A t \in Threads : th[t].pc = "idle"
RECURSIVE SumObjs(_)
SumObjs(ts) ==
    IF ts = {} THEN 0
    ELSE LET t == CHOOSE x \in ts : TRUE IN th[t].objs + SumObjs(ts \ {t})
\* The Requests that exist.
LiveRequests == SumObjs(Threads)

\* C14: whenever no constructor or destructor is running, instanceCount is
\* the number of Requests that exist, however they came into existence,
\* and it is never negative.
C14_CounterIsLiveRequests ==
    /\ rt.instanceCount >= 0
    /\ AllIdle => rt.instanceCount = LiveRequests

\* C15: curl_global_cleanup runs at most once in the life of the process,
\* and only when the counter has come back to zero.
C15_TeardownOnce ==
    /\ rt.cleanups <= 1
    /\ rt.cleanups <= rt.zeros

\* C16: curl_global_init runs at most once, every thread that is past
\* call_once finds it completed, and no curl_easy_init was called before
\* that.
C16_InitOnceBeforeHandles ==
    /\ rt.inits <= 1
    /\ ~rt.early
    /\ \A t \in Threads :
          th[t].pc \in {"lock", "read", "write", "easy"} =>
             rt.onceFlag = "done" /\ rt.inits = 1
    /\ LiveRequests > 0 => rt.inits = 1

\* C16's case: each of the two threads has constructed a Request of its
\* own, curl_global_init ran once and both handles were created after it.
C16_Witness ==
    /\ rt.inits = 1
    /\ rt.constructs = 2
    /\ rt.cleanups = 0
    /\ \A t \in Threads : th[t].pc = "idle" /\ th[t].objs = 1

\* C17: when every Request has been destroyed and no thread is in a
\* constructor or destructor, instanceCount is zero; curl_global_cleanup
\* runs at most once for each time the counter came back to zero, and two
\* threads are never inside the counter's critical section together.
C17_CounterZeroWhenAllDestroyed ==
    /\ (AllIdle /\ LiveRequests = 0) => rt.instanceCount = 0
    /\ rt.cleanups <= rt.zeros
    /\ \A t \in Threads :
          th[t].pc \in {"read", "write", "dread", "dwrite", "cleanup"} =>
             rt.mutex = t

\* C33: while a Request is live, curl_global_init has run and
\* curl_global_cleanup has not run since: the engine is initialised.
C33_EngineUpWhileLive ==
    LiveRequests > 0 => rt.inits > rt.cleanups

(***************************************************************************)
(* Ownership: the unique_ptr members curlHandle, list and mime across      *)
(* setters, send, reset, moves and destruction.                            *)
(***************************************************************************)
MaxRes == 4           \* handles, lists and mimes libcurl creates in a run

\* A created resource, not yet released.
Created(kind) == [kind |-> kind, frees |-> 0]

\* The deleter of a unique_ptr (curl_easy_cleanup, curl_slist_free_all,
\* curl_mime_free): does nothing on a null pointer.
Deleter(res, ptr) ==
    IF ptr = 0 THEN res ELSE [res EXCEPT ![ptr].frees = @ + 1]

\* unique_ptr::reset(): the pointer becomes null or p, the old one is
\* deleted.
ptrReset(res, old) == Deleter(res, old)

\* Request::clean(): mime.reset(); list.reset(); curlHandle.reset().
cleanFrees(r, res) ==
    ptrReset(ptrReset(ptrReset(res, r.mime), r.list), r.curlHandle)

\* A faulty clean(): the handle is deleted but the pointer keeps its value.
cleanedKeepsHandle(r) == [r EXCEPT !.mime = 0, !.list = 0]

\* The members after clean(): a unique_ptr that was reset() is null.
cleaned(r) == [r EXCEPT !.mime = 0, !.list = 0, !.curlHandle = 0]

\* A faulty move: the source keeps its pointers.
movedFromKeeps(r) == r

\* A unique_ptr that was the argument of std::move into another is null.
movedFrom(r) == [r EXCEPT !.curlHandle = 0, !.list = 0, !.mime = 0]

\* A faulty addHeader without list.release(): the list still holds the old
\* head when reset(newList) is called.
listNotReleased(ptr) == ptr

\* list.release(): the list holds null and nothing is deleted.
listReleased(ptr) == 0

Ran(op, d, s, raised) == [op |-> op, d |-> d, s |-> s, raised |-> raised]
CanCreate == Len(own.res) < MaxRes
NewPtr == Len(own.res) + 1

\* Request::Request(): curl_easy_init() gives the handle, or the
\* constructor throws and the variable holds no Request.
OwnConstruct(x, initOk) ==
    /\ ~own.slot[x].live
    /\ IF initOk
       THEN /\ CanCreate
            /\ own' = [slot |-> [own.slot EXCEPT ![x] =
                                   [live |-> TRUE, curlHandle |-> NewPtr,
                                    list |-> 0, mime |-> 0]],
                       res |-> Append(own.res, Created("handle")),
                       last |-> Ran("Request", x, x, "")]
       ELSE own' = [own EXCEPT
                      !.last = Ran("Request", x, x, "InitializationException")]
    /\ UNCHANGED <<reqvars, mv, ver, hl, hdr, qs, rt, th>>

\* Request::addHeader: curl_slist_append returns the head of the list (a
\* new list when there was none) or null; list.release(); list.reset(newList).
OwnAddHeader(x, appended) ==
    /\ own.slot[x].live
    /\ IF appended
       THEN LET r == own.slot[x]
                fresh == r.list = 0
                newList == IF fresh THEN NewPtr ELSE r.list
                res1 == IF fresh THEN Append(own.res, Created("list"))
                        ELSE own.res
                held == listReleased(r.list)
            IN /\ fresh => CanCreate
               /\ own' = [slot |-> [own.slot EXCEPT ![x].list = newList],
                          res |-> ptrReset(res1, held),
                          last |-> Ran("addHeader", x, x, "")]
       ELSE own' = [own EXCEPT
                      !.last = Ran("addHeader", x, x, "HeaderException")]
    /\ UNCHANGED <<reqvars, mv, ver, hl, hdr, qs, rt, th>>

\* Request::addFormField / addFormFile: curl_mime_init when there is no
\* mime yet, then curl_mime_addpart; either may fail and throw.
OwnAddForm(x, initOk, partOk) ==
    /\ own.slot[x].live
    /\ LET r == own.slot[x] IN
       IF r.mime = 0 /\ ~initOk
       THEN own' = [own EXCEPT
                      !.last = Ran("addForm", x, x, "MimeException")]
       ELSE /\ r.mime = 0 => CanCreate
            /\ own' = [slot |-> [own.slot EXCEPT ![x].mime =
                                   IF r.mime = 0 THEN NewPtr ELSE r.mime],
                       res |-> IF r.mime = 0
                               THEN Append(own.res, Created("mime"))
                               ELSE own.res,
                       last |-> Ran("addForm", x, x,
                                    IF partOk THEN "" ELSE "MimeException")]
    /\ UNCHANGED <<reqvars, mv, ver, hl, hdr, qs, rt, th>>

\* Request::reset(): a new handle first (throws if there is none), then
\* clean(), then the new handle is taken.
resetOwned(x, op, raised) ==
    /\ CanCreate
    /\ own' = [slot |-> [own.slot EXCEPT ![x] =
                           [live |-> TRUE, curlHandle |-> NewPtr,
                            list |-> 0, mime |-> 0]],
               res |-> cleanFrees(own.slot[x],
                                  Append(own.res, Created("handle"))),
               last |-> Ran(op, x, x, raised)]

OwnReset(x, initOk) ==
    /\ own.slot[x].live
    /\ IF initOk
       THEN resetOwned(x, "reset", "")
       ELSE own' = [own EXCEPT
                      !.last = Ran("reset", x, x, "InitializationException")]
    /\ UNCHANGED <<reqvars, mv, ver, hl, hdr, qs, rt, th>>

\* Request::send(): a transfer that failed throws RequestException; one
\* that succeeded is followed by reset().  A Request without a handle
\* cannot succeed.
OwnSend(x, performOk, initOk) ==
    /\ own.slot[x].live
    /\ performOk => own.slot[x].curlHandle # 0
    /\ IF ~performOk
       THEN own' = [own EXCEPT !.last = Ran("send", x, x, "RequestException")]
       ELSE IF ~initOk
       THEN own' = [own EXCEPT
                      !.last = Ran("send", x, x, "InitializationException")]
       ELSE resetOwned(x, "send", "")
    /\ UNCHANGED <<reqvars, mv, ver, hl, hdr, qs, rt, th>>

\* send(attempts) when the last attempt failed: the Request is reset, then
\* RequestException is raised.
OwnSendGivesUp(x, initOk) ==
    /\ own.slot[x].live
    /\ IF ~initOk
       THEN own' = [own EXCEPT
                      !.last = Ran("send(attempts)", x, x,
                                   "InitializationException")]
       ELSE resetOwned(x, "send(attempts)", "RequestException")
    /\ UNCHANGED <<reqvars, mv, ver, hl, hdr, qs, rt, th>>

\* Request::Request(Request&& other): d is constructed from s.
OwnMoveConstruct(d, s) ==
    /\ d # s
    /\ ~own.slot[d].live
    /\ own.slot[s].live
    /\ own' = [own EXCEPT !.slot = [@ EXCEPT ![d] = own.slot[s],
                                            ![s] = movedFrom(own.slot[s])],
                          !.last = Ran("moveConstruct", d, s, "")]
    /\ UNCHANGED <<reqvars, mv, ver, hl, hdr, qs, rt, th>>

\* Request::operator=(Request&& other): d = std::move(s).
OwnMoveAssign(d, s) ==
    /\ own.slot[d].live
    /\ own.slot[s].live
    /\ IF d = s
       THEN own' = [own EXCEPT !.last = Ran("moveAssign", d, s, "")]
       ELSE own' = [slot |-> [own.slot EXCEPT ![d] = own.slot[s],
                                              ![s] = movedFrom(own.slot[s])],
                    res |-> cleanFrees(own.slot[d], own.res),
                    last |-> Ran("moveAssign", d, s, "")]
    /\ UNCHANGED <<reqvars, mv, ver, hl, hdr, qs, rt, th>>

\* Request::~Request(): clean().
OwnDestroy(x) ==
    /\ own.slot[x].live
    /\ own' = [slot |-> [own.slot EXCEPT ![x] = NoSlot],
               res |-> cleanFrees(own.slot[x], own.res),
               last |-> Ran("~Request", x, x, "")]
    /\ UNCHANGED <<reqvars, mv, ver, hl, hdr, qs, rt, th>>

\* Request::clean() on its own, as a member function runs it on a Request
\* in whatever state it is; "clean again" when the call before it on the
\* same Request was clean() too.
OwnClean(x) ==
    /\ own.slot[x].live
    /\ own' = [slot |-> [own.slot EXCEPT ![x] = cleaned(own.slot[x])],
               res |-> cleanFrees(own.slot[x], own.res),
               last |-> Ran(IF own.last.op \in {"clean", "clean again"}
                               /\ own.last.d = x
                            THEN "clean again" ELSE "clean", x, x, "")]
    /\ UNCHANGED <<reqvars, mv, ver, hl, hdr, qs, rt, th>>

NextOwn ==
    \/ \E x \in Slots, initOk \in BOOLEAN : OwnConstruct(x, initOk)
    \/ \E x \in Slots : OwnClean(x)
    \/ \E x \in Slots, appended \in BOOLEAN : OwnAddHeader(x, appended)
    \/ \E x \in Slots, initOk \in BOOLEAN, partOk \in BOOLEAN :
          OwnAddForm(x, initOk, partOk)
    \/ \E x \in Slots, initOk \in BOOLEAN : OwnReset(x, initOk)
    \/ \E x \in Slots, performOk \in BOOLEAN, initOk \in BOOLEAN :
          OwnSend(x, performOk, initOk)
    \/ \E x \in Slots, initOk \in BOOLEAN : OwnSendGivesUp(x, initOk)
    \/ \E d \in Slots, s \in Slots : OwnMoveConstruct(d, s)
    \/ \E d \in Slots, s \in Slots : OwnMoveAssign(d, s)
    \/ \E x \in Slots : OwnDestroy(x)

SpecOwn == Init /\ [][NextOwn]_vars

\* The non-null pointers a Request holds.
Held(r) == {r.curlHandle, r.list, r.mime} \ {0}
\* No resource is held by two Requests.
NoneShared(slot) ==
    \A x \in Slots, y \in Slots : x # y => Held(slot[x]) \cap Held(slot[y]) = {}
HoldsNothing(r) == r.curlHandle = 0 /\ r.list = 0 /\ r.mime = 0
SamePtrs(r, q) ==
    r.curlHandle = q.curlHandle /\ r.list = q.list /\ r.mime = q.mime

\* C18: a move construction or move assignment from another Request gives
\* the destination exactly the source's handle, list and mime and leaves
\* the source with none; no two Requests ever hold the same one; a move
\* assignment releases what the destination held, once each, and a move
\* construction releases nothing; a self move assignment changes no
\* Request and releases nothing.
C18_MovesTransferOwnership ==
    [][ /\ NoneShared(own'.slot)
        /\ own'.last.op \in {"moveConstruct", "moveAssign"} =>
             LET d == own'.last.d
                 s == own'.last.s
             IN IF d = s
                THEN own'.slot = own.slot /\ own'.res = own.res
                ELSE /\ SamePtrs(own'.slot[d], own.slot[s])
                     /\ HoldsNothing(own'.slot[s])
                     /\ \A i \in 1..Len(own.res) :
                           own'.res[i].frees =
                              own.res[i].frees
                                 + (IF i \in Held(own.slot[d]) THEN 1 ELSE 0)
                     /\ Held(own.slot[d]) \cap Held(own'.slot[d]) = {}
      ]_vars

\* C18's case: a = std::move(b) where a held a handle and a list and b held
\* a handle: a's two were released and a now holds b's handle, b nothing.
C18_Witness ==
    /\ own.last = Ran("moveAssign", "a", "b", "")
    /\ own.res = <<[kind |-> "handle", frees |-> 1],
                   [kind |-> "list", frees |-> 1],
                   [kind |-> "handle", frees |-> 0]>>
    /\ own.slot["a"] = [live |-> TRUE, curlHandle |-> 3, list |-> 0, mime |-> 0]
    /\ own.slot["b"] = [live |-> TRUE, curlHandle |-> 0, list |-> 0, mime |-> 0]

\* C19: no handle, list or mime is ever released twice, none that a Request
\* holds has been released, and once no Request exists every one that was
\* created has been released exactly once.
C19_ReleasedExactlyOnce ==
    /\ \A i \in 1..Len(own.res) : own.res[i].frees <= 1
    /\ \A x \in Slots : \A i \in Held(own.slot[x]) : own.res[i].frees = 0
    /\ (\A x \in Slots : ~own.slot[x].live) =>
          \A i \in 1..Len(own.res) : own.res[i].frees = 1

\* C19's case: every Request has been destroyed after a handle, a list and
\* a mime were created and a send replaced the handle.
C19_Witness ==
    /\ \A x \in Slots : ~own.slot[x].live
    /\ own.last.op = "~Request"
    /\ {own.res[i].kind : i \in 1..Len(own.res)} = {"handle", "list", "mime"}
    /\ Len(own.res) = 4

\* C32: clean() leaves the Request without handle, list and mime, in
\* whatever state it was, releases exactly those the Request held, once
\* each, and touches no other Request; run again straight after, it
\* changes and releases nothing; nothing is ever released twice, and a
\* destructor that runs on a Request clean() has emptied releases nothing.
C32_CleanIdempotent ==
    /\ [](\A i \in 1..Len(own.res) : own.res[i].frees <= 1)
    /\ [][ /\ own'.last.op \in {"clean", "clean again"} =>
                LET x == own'.last.d
                IN /\ own'.slot[x].live /\ HoldsNothing(own'.slot[x])
                   /\ \A y \in Slots \ {x} : own'.slot[y] = own.slot[y]
                   /\ \A i \in 1..Len(own.res) :
                         own'.res[i].frees =
                            own.res[i].frees
                               + (IF i \in Held(own.slot[x]) THEN 1 ELSE 0)
                   /\ Len(own'.res) = Len(own.res)
           /\ own'.last.op = "clean again" =>
                own'.slot = own.slot /\ own'.res = own.res
           /\ (own.last.op \in {"clean", "clean again"}
                  /\ own'.last.op = "~Request"
                  /\ own'.last.d = own.last.d) =>
                own'.res = own.res /\ ~own'.slot[own.last.d].live
       ]_vars

\* C32's case: clean() ran twice in a row on a Request that held a
\* handle, a list and a mime: each of them was released once.
C32_Witness ==
    /\ own.last.op = "clean again"
    /\ Len(own.res) = 3
    /\ {own.res[i].kind : i \in 1..Len(own.res)} = {"handle", "list", "mime"}
    /\ \A i \in 1..Len(own.res) : own.res[i].frees = 1

(***************************************************************************)
(* The outgoing payload of a Request.                                      *)
(***************************************************************************)
\* C20: a Request never has both a non-empty body and MIME parts.
C20_OnePayload ==
    ~(req.body # "" /\ req.mime.valid /\ req.mime.parts # <<>>)

(***************************************************************************)
(* The write sink and the download file of send.                           *)
(***************************************************************************)
\* C21: in every send the body bytes go where the download target of that
\* send says: with a target every delivered byte is in the file and none in
\* memory or in Response.body; without one every delivered byte is in
\* memory and, when send returns, in Response.body.
C21_SinkFollowsTarget ==
    /\ (pc = "perform" /\ obs.path # "") =>
          obs.fileData = obs.delivered /\ frame.responseStream = <<>>
    /\ (pc = "perform" /\ obs.path = "") =>
          frame.responseStream = obs.delivered /\ obs.fileData = <<>>
    /\ (SendEnded /\ last.kind = "returned") =>
          IF obs.path # ""
          THEN obs.fileData = obs.delivered /\ last.response.body = <<>>
          ELSE last.response.body = obs.delivered /\ obs.fileData = <<>>

\* C22: once send has returned or raised, no file it opened is open; while
\* it runs with a download target the file is open, and without one there
\* is none; a failure to open the file ends send with RequestError before
\* any transfer.
C22_FileClosedAtExit ==
    /\ pc = "idle" => ~frame.fileOut
    /\ pc # "idle" => (frame.fileOut <=> obs.path # "")
    /\ last.cause = "fopen" =>
          pc = "idle" /\ last.kind = "RequestError" /\ obs.xfers = 0

\* C22's case: a send with a download target wrote a chunk to the file,
\* its transfer then failed, send raised RequestError and the file is
\* closed.
C22_Witness ==
    /\ SendEnded
    /\ obs.path # "" /\ obs.fileData # <<>>
    /\ last.kind = "RequestError" /\ last.cause = "transport"
    /\ ~frame.fileOut

(***************************************************************************)
(* The HTTP version preference: setHttpVersion against the features of     *)
(* the libcurl build, and the option send puts on the handle.              *)
(***************************************************************************)
MaxSends == 2         \* sends on the Request of the version model

\* curl_version_info(CURLVERSION_NOW)->features & CURL_VERSION_HTTP2/3: the
\* answer is the same at every call of a process.
Feature(supported) == IF supported THEN "yes" ELSE "no"
FeatureIs(version, supported) ==
    version \in {"HTTP_2", "HTTP_3"} =>
       ver.features[version] \in {"unknown", Feature(supported)}
Learn(version, supported) ==
    IF version \in {"HTTP_2", "HTTP_3"}
    THEN [ver.features EXCEPT ![version] = Feature(supported)]
    ELSE ver.features

\* Request::setHttpVersion(version).
VerSet(version, supported) ==
    /\ FeatureIs(version, supported)
    /\ ver.sends < MaxSends
    /\ IF VersionRefused(version, supported)
       THEN ver' = [ver EXCEPT !.features = Learn(version, supported),
                               !.op = "setHttpVersion", !.asked = version,
                               !.raised = "LogicError"]
       ELSE ver' = [ver EXCEPT !.features = Learn(version, supported),
                               !.httpVersion = version,
                               !.op = "setHttpVersion", !.asked = version,
                               !.raised = "", !.wins = version]
    /\ UNCHANGED <<reqvars, mv, hl, hdr, qs, rt, th, own>>

\* Request::send() up to the transfer: the switch on httpVersion and
\* curl_easy_setopt(CURLOPT_HTTP_VERSION).
VerSend ==
    /\ ver.sends < MaxSends
    /\ ver' = [ver EXCEPT !.HTTP_VERSION = curl_http_version(ver.httpVersion),
                          !.op = "send", !.asked = "", !.raised = "",
                          !.sends = @ + 1]
    /\ UNCHANGED <<reqvars, mv, hl, hdr, qs, rt, th, own>>

\* Request::reset(): a new handle, on which the option is not set; the
\* preference is not among the members reset() clears.
VerReset ==
    /\ ver.op # "reset"
    /\ ver' = [ver EXCEPT !.HTTP_VERSION = "unset",
                          !.op = "reset", !.asked = "", !.raised = ""]
    /\ UNCHANGED <<reqvars, mv, hl, hdr, qs, rt, th, own>>

NextVersion ==
    \/ \E version \in HttpVersions, supported \in BOOLEAN :
          VerSet(version, supported)
    \/ VerSend
    \/ VerReset

SpecVersion == Init /\ [][NextVersion]_vars

\* The engine's value for a version preference.
RuleEngineVersion(v) ==
    CASE v = "DEFAULT"  -> "CURL_HTTP_VERSION_NONE"
      [] v = "HTTP_1_1" -> "CURL_HTTP_VERSION_1_1"
      [] v = "HTTP_2"   -> "CURL_HTTP_VERSION_2_0"
      [] v = "HTTP_3"   -> "CURL_HTTP_VERSION_3"

MaxHeaders == 3       \* entries of a header list

PlainLines == { <<"h1">>, <<"h2">> }
Tokens == {"t1", "t2"}

\* "Authorization: Bearer " + token.
AuthHeader(token) == <<"Authorization: Bearer ", token>>

\* A faulty list: the new entry is put in front.
curl_slist_prepend(entries, line) == <<line>> \o entries

\* curl_slist_append(list, line) when it succeeds: the list with one more
\* entry at its end; the head is the old head, or the new entry of a list
\* that was null.
curl_slist_append(entries, line) == Append(entries, line)

\* Request::addHeader(line), called as op; appended is whether
\* curl_slist_append returned a list.
HeaderAdded(op, line, appended) ==
    /\ Len(hl.entries) < MaxHeaders
    /\ IF ~appended
       THEN hl' = [hl EXCEPT !.op = op, !.asked = line,
                             !.raised = "HeaderException", !.freed = 0]
       ELSE LET newList == 1
                released == listReleased(hl.ptr)
            IN hl' = [ptr |-> newList,
                      entries |-> curl_slist_append(hl.entries, line),
                      op |-> op, asked |-> line, raised |-> "",
                      freed |-> IF released # 0 THEN 1 ELSE 0]

ListAddHeader(line, appended) ==
    /\ HeaderAdded("addHeader", line, appended)
    /\ UNCHANGED <<reqvars, mv, ver, hdr, qs, rt, th, own>>

\* Request::setAuthToken(token): addHeader("Authorization: Bearer " + token).
ListSetAuthToken(token, appended) ==
    /\ HeaderAdded("setAuthToken", AuthHeader(token), appended)
    /\ UNCHANGED <<reqvars, mv, ver, hdr, qs, rt, th, own>>

\* Request::reset(): clean() gives the list back, the new Request state has
\* none.
ListReset ==
    /\ hl.op # "reset"
    /\ hl' = [NoList EXCEPT !.op = "reset",
                            !.freed = IF hl.ptr # 0 THEN 1 ELSE 0]
    /\ UNCHANGED <<reqvars, mv, ver, hdr, qs, rt, th, own>>

NextList ==
    \/ \E line \in PlainLines, appended \in BOOLEAN :
          ListAddHeader(line, appended)
    \/ \E token \in Tokens, appended \in BOOLEAN :
          ListSetAuthToken(token, appended)
    \/ ListReset

SpecList == Init /\ [][NextList]_vars

IsAuthorization(line) == line[1] = "Authorization: Bearer "
AuthorizationEntries(entries) ==
    {i \in 1..Len(entries) : IsAuthorization(entries[i])}

\* C24: the header list never carries more than one Authorization header,
\* and after a setAuthToken that returned it is the one of that call.
C24_OneAuthorization ==
    /\ Cardinality(AuthorizationEntries(hl.entries)) <= 1
    /\ (hl.op = "setAuthToken" /\ hl.raised = "") =>
          \A i \in AuthorizationEntries(hl.entries) : hl.entries[i] = hl.asked

\* C30: an addHeader that returns has put its line, once, at the end of the
\* list and moved or freed nothing else; an addHeader whose append failed
\* raises HeaderError and leaves the entries and the list pointer as they
\* were, with nothing freed.
C30_AddHeaderAppendsOne ==
    [][ hl'.op \in {"addHeader", "setAuthToken"} =>
          /\ hl'.freed = 0
          /\ IF hl'.raised = ""
             THEN /\ hl'.entries = hl.entries \o <<hl'.asked>>
                  /\ hl'.ptr # 0
             ELSE /\ hl'.raised = "HeaderException"
                  /\ hl'.entries = hl.entries
                  /\ hl'.ptr = hl.ptr
      ]_vars

\* C30's case: h2 then h1 were added, and a third addHeader failed: the
\* list holds h2, h1 in that order.
C30_Witness ==
    /\ hl.op = "addHeader" /\ hl.raised = "HeaderException"
    /\ hl.entries = << <<"h2">>, <<"h1">> >>
    /\ hl.ptr # 0 /\ hl.freed = 0

(***************************************************************************)
(* Body and method.                                                        *)
(***************************************************************************)
BodyMethods == {"POST", "PUT", "PATCH"}

\* C25: a send with a body-carrying method transmits the body stored by
\* setBody, whether setBody was called before or after setMethod.
C25_SendCarriesStoredBody ==
    (pc = "perform" /\ req.method \in BodyMethods /\ req.body # "") =>
       /\ req.opt.COPYPOSTFIELDS = req.body
       /\ req.opt.POSTFIELDSIZE = BodySize(req.body)

RuleMethodOptions(m) ==
    [HTTPGET |-> IF m = "GET" THEN 1 ELSE 0,
     POST |-> IF m = "POST" THEN 1 ELSE 0,
     CUSTOMREQUEST |-> CASE m = "PUT" -> "PUT"
                         [] m = "PATCH" -> "PATCH"
                         [] m = "DEL" -> "DELETE"
                         [] OTHER -> "null",
     NOBODY |-> IF m = "HEAD" THEN 1 ELSE 0]

\* C27: the method-specific options on the handle are exactly those of the
\* Request's method, whatever methods were set before.
C27_OnlyOptionsOfMethod ==
    \A o \in DOMAIN RuleMethodOptions(req.method) :
       req.opt[o] = RuleMethodOptions(req.method)[o]

(***************************************************************************)
(* The URL of a send.                                                      *)
(***************************************************************************)
\* The URL of a base and the args added: the base alone, or base?args.
RuleURL(url, args) == IF args = <<>> THEN <<url>> ELSE <<url, "?">> \o args

\* C28: the URL on the handle during a send is the one of the base URL and
\* the args the Request had when send was called; no setter call touches
\* the URL on the handle; a call that sets the base URL leaves the args as
\* they are and a call that adds an arg leaves the base URL as it is and
\* puts the arg after those already there, so the URL sent does not depend
\* on where among the addArg calls setURL was called.
C28_URLComputedAtSend ==
    [][ /\ (pc = "idle" /\ pc' = "perform") =>
             /\ req'.opt.URL = RuleURL(req.url, req.args)
             /\ req'.url = req.url /\ req'.args = req.args
        /\ pc' # "idle" => req'.opt.URL = RuleURL(req'.url, req'.args)
        /\ calls' # calls => req'.opt.URL = req.opt.URL
        /\ (req'.url # req.url /\ req'.url # "") => req'.args = req.args
        /\ req'.args # req.args /\ req'.args # <<>> =>
             /\ req'.url = req.url
             /\ \E a \in ArgPairs : req'.args = req.args \o <<a>>
      ]_vars

\* C28's case: a send is under way after setURL("u1") and addArg (in either
\* order); the handle has u1?k=v.
C28_Witness ==
    /\ pc = "perform" /\ calls = 2
    /\ req.url = "u1" /\ req.args = <<"k=v">>
    /\ req.opt.URL = <<"u1", "?", "k=v">>

(***************************************************************************)
(* Aborts by the progress callback in send(attempts).                      *)
(***************************************************************************)
\* C29: a transfer ended by the progress callback is a failed attempt like
\* any other: with attempts remaining send goes to its backoff sleep, raises
\* nothing and then starts the next attempt; on the last attempt send ends
\* without returning a Response; and RequestError for a transfer is raised
\* only at the last attempt, after a transfer that failed.
C29_AbortIsRetried ==
    [][ /\ (pc = "perform" /\ pc' # "perform"
               /\ obs'.res = "CURLE_ABORTED_BY_CALLBACK") =>
             IF frame.attempt < frame.attempts
             THEN /\ pc' = "backoff"
                  /\ last' = last
                  /\ obs'.xfers = obs.xfers
             ELSE /\ pc' = "idle"
                  /\ last'.kind # "returned"
                  /\ last'.kind \in {"RequestError", "InitializationError"}
        /\ pc = "backoff" =>
             /\ pc' = "perform"
             /\ frame'.attempt = frame.attempt + 1
             /\ obs'.xfers = obs.xfers + 1
             /\ obs'.slept = Append(obs.slept, BaseDelay * 2^(frame.attempt - 1))
        /\ (pc = "perform" /\ last'.kind = "RequestError") =>
             /\ frame.attempt = frame.attempts
             /\ obs'.xfers = obs'.attempts
             /\ obs'.res # "CURLE_OK"
      ]_vars

\* C29's case: send(2) with a progress callback; the callback aborted the
\* first transfer, send slept and retried, the second transfer was aborted
\* as well and send raised RequestError.
C29_Witness ==
    /\ SendEnded
    /\ obs.attempts = 2 /\ obs.xfers = 2 /\ obs.slept = <<BaseDelay>>
    /\ obs.aborted /\ obs.res = "CURLE_ABORTED_BY_CALLBACK"
    /\ last.kind = "RequestError"

(***************************************************************************)
(* The mime structure.                                                     *)
(***************************************************************************)
\* C31: a Request just constructed or reset has no mime structure; the
\* structure appears only in an addFormField/addFormFile call, and is then
\* set as MIMEPOST; every such call that succeeds appends exactly one part
\* of its kind behind the parts there were, and parts are only ever added
\* so or dropped together with the structure; a call in which creating
\* the structure fails raises MimeError and leaves the Request, still
\* without a mime structure, as it was.
C31_MimeLazyOnePartPerCall ==
    /\ [](~req.mime.valid => req.mime.parts = <<>>)
    /\ [][ /\ (~req.mime.valid /\ req'.mime.valid) =>
                 /\ last'.op = "addForm"
                 /\ req'.opt.MIMEPOST = "mime"
           /\ (pc = "idle" /\ last'.op = "addForm" /\ last'.kind = "ok") =>
                 /\ req'.mime.valid
                 /\ Len(req'.mime.parts) = Len(req.mime.parts) + 1
                 /\ SubSeq(req'.mime.parts, 1, Len(req.mime.parts))
                       = req.mime.parts
                 /\ req'.mime.parts[Len(req'.mime.parts)] \in PartKinds
                 /\ req' = [req EXCEPT !.mime = req'.mime,
                                       !.opt.MIMEPOST = "mime"]
           /\ req'.mime.parts # req.mime.parts =>
                 \/ last'.op = "addForm" /\ last'.kind = "ok"
                 \/ req'.mime = NoMime
           /\ (pc = "idle" /\ last'.op = "addForm" /\ last'.cause = "init") =>
                 /\ last'.kind = "MimeError"
                 /\ ~req.mime.valid
                 /\ req' = req
           /\ (last'.op \in {"Request", "reset"} /\ last'.kind = "ok") =>
                 req'.mime = NoMime
       ]_vars

\* C31's case: on a Request without a mime structure addFormField and then
\* addFormFile succeeded: the structure holds a field and a file, in that
\* order.
C31_Witness ==
    /\ pc = "idle"
    /\ last = Outcome("addForm", "ok", "")
    /\ req.mime = [valid |-> TRUE, parts |-> <<"field", "file">>]

\* C37: a Request that holds MIME parts has the method MIME.
C37_PartsImplyMimeMethod ==
    req.mime.parts # <<>> => req.method = "MIME"

(***************************************************************************)
(* reset().                                                                *)
(***************************************************************************)
\* A step in which reset() ran to its end: the caller's own call, or the
\* one send makes before it returns.
ResetRan ==
    \/ pc = "idle" /\ last'.op = "reset" /\ last'.kind = "ok"
    \/ pc = "perform" /\ last'.op = "send" /\ last'.kind = "returned"

C39_FailedResetChangesNothing ==
    [][ (pc = "idle" /\ last'.op = "reset" /\ last'.kind # "ok") =>
           /\ last' = Outcome("reset", "InitializationError", "init")
           /\ req' = req
           /\ req'.curlHandle # NullHandle
           /\ pc' = "idle"
      ]_vars

\* C39's case: reset() raised InitializationError on a Request with a
\* header and a mime part, which it still has.
C39_Witness ==
    /\ last = Outcome("reset", "InitializationError", "init")
    /\ req.list # <<>>
    /\ req.mime.parts # <<>>
    /\ req.curlHandle = NewHandle

MaxOps == 6           \* calls on the Requests of the thread


Did(op, d, s, raised) ==
    [op |-> op, d |-> d, s |-> s, raised |-> raised,
     bridge |-> "none", ctxLive |-> FALSE]

\* Request::Request().
MvConstruct(x, initOk) ==
    /\ mv.ops < MaxOps
    /\ ~mv.slot[x].live
    /\ mv' = [mv EXCEPT
                !.slot[x] = IF initOk
                            THEN [NoMover EXCEPT !.live = TRUE,
                                                 !.curlHandle = TRUE]
                            ELSE @,
                !.ops = @ + 1,
                !.last = Did("Request", x, x,
                             IF initOk THEN ""
                             ELSE "InitializationException")]
    /\ UNCHANGED <<reqvars, ver, hl, hdr, qs, rt, th, own>>

MvDownloadToFile(x, path) ==
    /\ mv.ops < MaxOps /\ mv.slot[x].live
    /\ mv' = [mv EXCEPT !.slot[x].downloadFilePath = path, !.ops = @ + 1,
                        !.last = Did("downloadToFile", x, x, "")]
    /\ UNCHANGED <<reqvars, ver, hl, hdr, qs, rt, th, own>>

MvSetProgressCallback(x, cb) ==
    /\ mv.ops < MaxOps /\ mv.slot[x].live
    /\ mv' = [mv EXCEPT !.slot[x].progressCallback = cb, !.ops = @ + 1,
                        !.last = Did("setProgressCallback", x, x, "")]
    /\ UNCHANGED <<reqvars, ver, hl, hdr, qs, rt, th, own>>

MvSetHttpVersion(x, version) ==
    /\ mv.ops < MaxOps /\ mv.slot[x].live
    /\ mv' = [mv EXCEPT !.slot[x].httpVersion = version, !.ops = @ + 1,
                        !.last = Did("setHttpVersion", x, x, "")]
    /\ UNCHANGED <<reqvars, ver, hl, hdr, qs, rt, th, own>>

\* The members and the handle after reset() got a new handle: the handle
\* has no option set; progressCallback and httpVersion are not touched.
moverReset(r) ==
    [r EXCEPT !.curlHandle = TRUE,
              !.XFERINFODATA = "null", !.NOPROGRESS = 1,
              !.downloadFilePath = ""]

MvReset(x, initOk) ==
    /\ mv.ops < MaxOps /\ mv.slot[x].live
    /\ mv' = [mv EXCEPT
                !.slot[x] = IF initOk THEN moverReset(@) ELSE @,
                !.ops = @ + 1,
                !.last = Did("reset", x, x,
                             IF initOk THEN ""
                             ELSE "InitializationException")]
    /\ UNCHANGED <<reqvars, ver, hl, hdr, qs, rt, th, own>>

\* "if (progressCallback) { setopt XFERINFOFUNCTION, XFERINFODATA = this,
\* NOPROGRESS = 0 }" on the handle of x; setopt on a null handle sets
\* nothing.
bindBridge(r, x) ==
    IF r.progressCallback # "none" /\ r.curlHandle
    THEN [r EXCEPT !.XFERINFODATA = x, !.NOPROGRESS = 0]
    ELSE r

\* Request::send() on x: the bridge is bound, the file opened, the
\* transfer performed, during which the engine calls the bridge of the
\* handle with its XFERINFODATA when progress is on; a failure throws, a success is followed by reset().  A Request
\* without a handle cannot succeed.
MvSend(x, openOk, performOk, initOk) ==
    /\ mv.ops < MaxOps /\ mv.slot[x].live
    /\ performOk => mv.slot[x].curlHandle
    /\ LET r == bindBridge(mv.slot[x], x)
           ctx == IF r.curlHandle /\ r.NOPROGRESS = 0
                  THEN r.XFERINFODATA ELSE "none"
           called == Did("send", x, x, "")
           seen == [called EXCEPT
                      !.bridge = ctx,
                      !.ctxLive = ctx \in Slots /\ mv.slot[ctx].live]
       IN  IF r.downloadFilePath # "" /\ ~openOk
           THEN mv' = [mv EXCEPT
                         !.slot[x] = r, !.ops = @ + 1,
                         !.last = [called EXCEPT
                                     !.raised = "RequestException"]]
           ELSE IF ~performOk
           THEN mv' = [mv EXCEPT
                         !.slot[x] = r, !.ops = @ + 1,
                         !.last = [seen EXCEPT
                                     !.raised = "RequestException"]]
           ELSE IF ~initOk
           THEN mv' = [mv EXCEPT
                         !.slot[x] = r, !.ops = @ + 1,
                         !.last = [seen EXCEPT
                                     !.raised = "InitializationException"]]
           ELSE mv' = [mv EXCEPT
                         !.slot[x] = moverReset(r), !.ops = @ + 1,
                         !.last = seen]
    /\ UNCHANGED <<reqvars, ver, hl, hdr, qs, rt, th, own>>

\* What the members named in the initialiser list of the move constructor,
\* and in the body of the move assignment, give the destination q from the
\* source r, of what is modelled here: the handle with its options.
moverTakes(q, r) ==
    [q EXCEPT !.live = TRUE,
              !.curlHandle = r.curlHandle,
              !.XFERINFODATA = r.XFERINFODATA,
              !.NOPROGRESS = r.NOPROGRESS]

\* The source of a move: its unique_ptr is null; the members that were
\* not moved keep their values.
moverGave(r) ==
    [r EXCEPT !.curlHandle = FALSE,
              !.XFERINFODATA = "null", !.NOPROGRESS = 1]

\* Request::Request(Request&& other): d is constructed from s; the members
\* not in the initialiser list get their default values.
MvMoveConstruct(d, s) ==
    /\ d # s
    /\ mv.ops < MaxOps
    /\ ~mv.slot[d].live
    /\ mv.slot[s].live
    /\ mv' = [mv EXCEPT !.slot[d] = moverTakes(NoMover, mv.slot[s]),
                        !.slot[s] = moverGave(@),
                        !.ops = @ + 1,
                        !.last = Did("moveConstruct", d, s, "")]
    /\ UNCHANGED <<reqvars, ver, hl, hdr, qs, rt, th, own>>

\* Request::operator=(Request&& other): d = std::move(s), with d # s; the
\* members the body does not assign keep the values d had.
MvMoveAssign(d, s) ==
    /\ d # s
    /\ mv.ops < MaxOps /\ mv.slot[d].live /\ mv.slot[s].live
    /\ mv' = [mv EXCEPT !.slot[d] = moverTakes(@, mv.slot[s]),
                        !.slot[s] = moverGave(@),
                        !.ops = @ + 1,
                        !.last = Did("moveAssign", d, s, "")]
    /\ UNCHANGED <<reqvars, ver, hl, hdr, qs, rt, th, own>>

\* Request::~Request().
MvDestroy(x) ==
    /\ mv.ops < MaxOps /\ mv.slot[x].live
    /\ mv' = [mv EXCEPT !.slot[x] = NoMover, !.ops = @ + 1,
                        !.last = Did("~Request", x, x, "")]
    /\ UNCHANGED <<reqvars, ver, hl, hdr, qs, rt, th, own>>

NextMove ==
    \/ \E x \in Slots, initOk \in BOOLEAN : MvConstruct(x, initOk)
    \/ \E x \in Slots, path \in Paths : MvDownloadToFile(x, path)
    \/ \E x \in Slots, cb \in Callbacks : MvSetProgressCallback(x, cb)
    \/ \E x \in Slots, version \in {"DEFAULT", "HTTP_1_1"} :
          MvSetHttpVersion(x, version)
    \/ \E x \in Slots, initOk \in BOOLEAN : MvReset(x, initOk)
    \/ \E x \in Slots, openOk \in BOOLEAN, performOk \in BOOLEAN,
          initOk \in BOOLEAN : MvSend(x, openOk, performOk, initOk)
    \/ \E d \in Slots, s \in Slots : MvMoveConstruct(d, s)
    \/ \E d \in Slots, s \in Slots : MvMoveAssign(d, s)
    \/ \E x \in Slots : MvDestroy(x)

SpecMove == Init /\ [][NextMove]_vars

\* C35: whenever the engine called the progress bridge during a send, the
\* context it passed was the Request executing that send, which exists and
\* holds the handle.
C35_BridgeContextIsSender ==
    (mv.last.op = "send" /\ mv.last.bridge # "none") =>
       /\ mv.last.bridge = mv.last.d
       /\ mv.last.ctxLive

\* What configures the next send of a Request: its handle, download
\* target, progress callback and HTTP version.
NextSendOf(r) ==
    [curlHandle |-> r.curlHandle,
     downloadFilePath |-> r.downloadFilePath,
     progressCallback |-> r.progressCallback,
     httpVersion |-> r.httpVersion]

\* C36: after a move construction or move assignment the destination is
\* configured for its next send as the source was before the move.
C36_MoveCarriesConfiguration ==
    [][ mv'.last.op \in {"moveConstruct", "moveAssign"} =>
           NextSendOf(mv'.slot[mv'.last.d]) = NextSendOf(mv.slot[mv'.last.s])
      ]_vars

=============================================================================
